---- MODULE Spec2Model ----
(***************************************************************************)
(* Model of binary_visualizer.py (class MainWindow): the hex view, the     *)
(* value view ("string view"), their offset tables, the highlight, the     *)
(* selection synchronisation, the representations pane and the mirroring   *)
(* of the scroll bars.                                                     *)
(*                                                                         *)
(* Conventions.  A text is a sequence of one-character strings; the text   *)
(* position p of the code (0-based) is element p+1 of the sequence.  The   *)
(* byte index i of the code (0-based) is element i+1 of data.  A text      *)
(* cursor is the pair <<anchor, position>> of a QTextCursor.  A decoded    *)
(* integer is the pair <<hi, lo>> standing for hi * 65536 + lo with        *)
(* 0 <= lo < 65536, so that all 32-bit values stay inside the checker's    *)
(* integers.                                                               *)
(***************************************************************************)
EXTENDS Integers, Sequences, FiniteSets, TLC

VARIABLES data, index, original_index, byteorder, data_type, endian,
          hex_view, hex_positions, string_view, string_byte_ranges,
          hex_cursor, str_cursor, hex_highlight, str_highlight,
          representations_view, syncing_selection, event,
          syncing_scroll, hex_scroll, str_scroll, scrolled, stack,
          row_start, row_address

vars ==
    <<data, index, original_index, byteorder, data_type, endian,
      hex_view, hex_positions, string_view, string_byte_ranges,
      hex_cursor, str_cursor, hex_highlight, str_highlight,
      representations_view, syncing_selection, event,
      syncing_scroll, hex_scroll, str_scroll, scrolled, stack,
      row_start, row_address>>

\* the window's texts, tables, cursors and panes
window_vars ==
    <<data, index, original_index, byteorder, data_type, endian,
      hex_view, hex_positions, string_view, string_byte_ranges,
      hex_cursor, str_cursor, hex_highlight, str_highlight,
      representations_view, syncing_selection, event>>

\* the scroll bars and their latch; scrolled records the last scroll
\* event of the user and the setValue calls made for it
scroll_vars ==
    <<syncing_scroll, hex_scroll, str_scroll, scrolled>>

\* the row loadHexView writes (its line_index) and the row's prefix
row_vars ==
    <<row_start, row_address>>

----------------------------------------------------------------------------
(* Bounds of the model.                                                    *)

\* longest buffer
MaxLen ==
    20

\* largest number of bytes a user selection spans
MaxSpan ==
    4

\* length of the longest file whose rows are stepped through
MaxFileLen ==
    100001

\* largest value of the vertical scroll bars: rows below the viewport
ScrollMax ==
    4

----------------------------------------------------------------------------
(* Program constants.                                                      *)

\* bytes per row: range(0, len(self.data), 16)
BytesPerLine ==
    16

DataTypes ==
    <<"ASCII", "8-bit int", "16-bit int", "32-bit int",
      "Unsigned 8-bit int", "Unsigned 16-bit int", "Unsigned 32-bit int">>

Endians ==
    <<"Little Endian", "Big Endian">>

\* data_type_width of updateStringView
data_type_width ==
    [t \in {DataTypes[k] : k \in 1..7} |->
        CASE t = "ASCII" -> 1
          [] t = "8-bit int" -> 4
          [] t = "16-bit int" -> 6
          [] t = "32-bit int" -> 11
          [] t = "Unsigned 8-bit int" -> 3
          [] t = "Unsigned 16-bit int" -> 5
          [] t = "Unsigned 32-bit int" -> 10]

\* struct format letter chosen by updateStringView
FmtOf(t) ==
    CASE t = "8-bit int" -> "b"
      [] t = "16-bit int" -> "h"
      [] t = "32-bit int" -> "i"
      [] t = "Unsigned 8-bit int" -> "B"
      [] t = "Unsigned 16-bit int" -> "H"
      [] t = "Unsigned 32-bit int" -> "I"
      [] OTHER -> ""

\* element size in bytes chosen by updateStringView
SizeOf(t) ==
    CASE t \in {"16-bit int", "Unsigned 16-bit int"} -> 2
      [] t \in {"32-bit int", "Unsigned 32-bit int"} -> 4
      [] OTHER -> 1

----------------------------------------------------------------------------
(* Characters and Python string helpers.                                   *)

Min(a, b) ==
    IF a <= b THEN a ELSE b

Max(a, b) ==
    IF a >= b THEN a ELSE b

HexDigits ==
    <<"0", "1", "2", "3", "4", "5", "6", "7",
      "8", "9", "A", "B", "C", "D", "E", "F">>

DecDigits ==
    <<"0", "1", "2", "3", "4", "5", "6", "7", "8", "9">>

\* chr(32) .. chr(126); chr(96) is written "backtick", the parser rejects it in a string
Printable ==
  <<
     " ", "!", "\"", "#", "$", "%", "&", "'", "(", ")", "*", "+",
     ",", "-", ".", "/", "0", "1", "2", "3", "4", "5", "6", "7",
     "8", "9", ":", ";", "<", "=", ">", "?", "@", "A", "B", "C",
     "D", "E", "F", "G", "H", "I", "J", "K", "L", "M", "N", "O",
     "P", "Q", "R", "S", "T", "U", "V", "W", "X", "Y", "Z", "[",
     "\\", "]", "^", "_", "backtick", "a", "b", "c", "d", "e", "f", "g",
     "h", "i", "j", "k", "l", "m", "n", "o", "p", "q", "r", "s",
     "t", "u", "v", "w", "x", "y", "z", "{", "|", "}", "~" >>

\* chr(b) if 32 <= b <= 126 else '.'
Glyph(b) ==
    IF 32 <= b /\ b <= 126 THEN Printable[b - 31] ELSE "."

\* ' ' * n
Spaces(n) ==
    [k \in 1..n |-> " "]

\* a slip: the text is not padded
Ljust_NoPad(s, w) ==
    s

\* f"{s:<{w}}": left-justify, pad with spaces, never truncate
Ljust(s, w) ==
    IF Len(s) >= w THEN s ELSE s \o Spaces(w - Len(s))

\* f"{b:02X}"
Hex02(b) ==
    <<HexDigits[(b \div 16) + 1], HexDigits[(b % 16) + 1]>>

RECURSIVE HexOf(_)
\* the uppercase hex digits of n > 0 (empty for 0)
HexOf(n) ==
    IF n = 0 THEN <<>> ELSE HexOf(n \div 16) \o <<HexDigits[(n % 16) + 1]>>

\* f"{n:08X}"
Hex08(n) ==
    LET d == HexOf(n)
    IN  IF Len(d) >= 8 THEN d ELSE [k \in 1..(8 - Len(d)) |-> "0"] \o d

RECURSIVE DecOf(_)
\* the decimal digits of the non-negative number <<hi, lo>> (empty for 0)
DecOf(v) ==
    IF v = <<0, 0>>
    THEN <<>>
    ELSE LET r == (v[1] % 10) * 65536 + v[2]
         IN  DecOf(<<v[1] \div 10, r \div 10>>) \o <<DecDigits[(r % 10) + 1]>>

\* the magnitude of a negative <<hi, lo>>
Negate(v) ==
    IF v[2] = 0 THEN <<0 - v[1], 0>> ELSE <<0 - v[1] - 1, 65536 - v[2]>>

\* str(value) for an int
Str(v) ==
    IF v = <<0, 0>> THEN <<"0">>
    ELSE IF v[1] < 0 THEN <<"-">> \o DecOf(Negate(v))
    ELSE DecOf(v)

\* str(n) for a small non-negative int
StrInt(n) ==
    Str(<<0, n>>)

RECURSIVE Join(_, _)
\* sep.join(parts) for a list of texts
Join(sep, parts) ==
    IF parts = <<>> THEN <<>>
    ELSE IF Len(parts) = 1 THEN parts[1]
    ELSE parts[1] \o sep \o Join(sep, Tail(parts))

\* s[a:b] of Python for 0 <= a
Slice(s, a, b) ==
    SubSeq(s, a + 1, Min(b, Len(s)))

----------------------------------------------------------------------------
(* struct.unpack for the integer formats.                                  *)

\* the bytes in little-endian order: order is "<" or ">"
ToLittle(order, bs) ==
    IF order = "<" THEN bs ELSE [k \in 1..Len(bs) |-> bs[Len(bs) + 1 - k]]

\* struct.unpack(order + letter, bs)[0] for letter in b B h H i I
Unpack(order, letter, bs) ==
    LET n == Len(bs)
        \* le: the bytes, least significant first
        Value(le) ==
            LET lo == IF n = 1 THEN le[1] ELSE le[1] + 256 * le[2]
                hi == IF n = 4 THEN le[3] + 256 * le[4] ELSE 0
                neg == letter \in {"b", "h", "i"} /\ le[n] >= 128
            IN  IF ~neg THEN <<hi, lo>>
                ELSE IF n = 1 THEN <<-1, 65280 + lo>>
                ELSE IF n = 2 THEN <<-1, lo>>
                ELSE <<hi - 65536, lo>>
    IN  Value(ToLittle(order, bs))

\* the byte order of a format without prefix: sys.byteorder
NativeOrder(bo) ==
    IF bo = "little" THEN "<" ELSE ">"

----------------------------------------------------------------------------
(* QTextDocument / QTextCursor behaviour used by the code.                 *)

\* QTextCursor.selectionStart()
SelStart(c) ==
    Min(c[1], c[2])

\* QTextCursor.selectionEnd()
SelEnd(c) ==
    Max(c[1], c[2])

\* cursor.setPosition(pos): a position outside the document is rejected
\* with a warning and the cursor is left as it was
SetPosition(c, pos, text) ==
    IF pos < 0 \/ pos > Len(text) THEN c ELSE <<pos, pos>>

\* cursor.setPosition(pos, QTextCursor.KeepAnchor)
SetPositionKeep(c, pos, text) ==
    IF pos < 0 \/ pos > Len(text) THEN c ELSE <<c[1], pos>>

\* cursor.movePosition(Right, MoveAnchor, n): stops at the end of the text
MoveRight(c, n, text) ==
    <<Min(c[2] + n, Len(text)), Min(c[2] + n, Len(text))>>

\* cursor.movePosition(Right, KeepAnchor, n)
MoveRightKeep(c, n, text) ==
    <<c[1], Min(c[2] + n, Len(text))>>

\* cursor.select(QTextCursor.Document)
SelectDocument(text) ==
    <<0, Len(text)>>

\* cursor.clearSelection(): the anchor moves to the position
ClearSelection(c) ==
    <<c[2], c[2]>>

\* document().blockCount(): an empty document has one block
BlockCount(text) ==
    1 + Cardinality({k \in 1..Len(text) : text[k] = "\n"})

\* document().findBlockByNumber(n).position() for n < blockCount
BlockPosition(text, n) ==
    IF n = 0 THEN 0
    ELSE CHOOSE p \in 1..Len(text) :
            /\ text[p] = "\n"
            /\ Cardinality({k \in 1..p : text[k] = "\n"}) = n

\* cursor.setCharFormat(fmt) formats the selected characters only
Painted(c) ==
    SelStart(c)..(SelEnd(c) - 1)

\* cursor.selectedText(): a line break reads as the paragraph separator
SelectedText(c, text) ==
    [k \in 1..(SelEnd(c) - SelStart(c)) |->
        IF text[SelStart(c) + k] = "\n" THEN "u2029" ELSE text[SelStart(c) + k]]

----------------------------------------------------------------------------
(* loadHexView                                                             *)

\* address = f"{line_index:08X} {('(' + str(line_index) + ')'):<7}: "
Address(line_index) ==
    Hex08(line_index) \o <<" ">>
        \o Ljust(<<"(">> \o StrInt(line_index) \o <<")">>, 7) \o <<":", " ">>

RECURSIVE HexLineLoop_OneExtra(_, _, _, _, _)
\* a slip: the extra blank of a group is counted as one position
HexLineLoop_OneExtra(line_bytes, i, pos, byte_group, positions) ==
    IF i >= Len(line_bytes)
    THEN [byte_group |-> byte_group, positions |-> positions]
    ELSE LET extra == (i + 1) % 4 = 0 /\ i # 15
         IN  HexLineLoop_OneExtra(line_bytes, i + 1,
                 pos + 2 + 1 + (IF extra THEN 1 ELSE 0),
                 byte_group \o <<Hex02(line_bytes[i + 1])>>
                     \o (IF extra THEN << <<" ">> >> ELSE <<>>),
                 positions \o <<pos>>)

RECURSIVE HexLineLoop(_, _, _, _, _)
\* for i, byte in enumerate(line_bytes): the group list, the recorded
\* positions
HexLineLoop(line_bytes, i, pos, byte_group, positions) ==
    IF i >= Len(line_bytes)
    THEN [byte_group |-> byte_group, positions |-> positions]
    ELSE LET extra == (i + 1) % 4 = 0 /\ i # 15
         IN  HexLineLoop(line_bytes, i + 1,
                 pos + 2 + 1 + (IF extra THEN 2 ELSE 0),
                 byte_group \o <<Hex02(line_bytes[i + 1])>>
                     \o (IF extra THEN << <<" ">> >> ELSE <<>>),
                 positions \o <<pos>>)

RECURSIVE HexViewLoop(_, _, _, _, _)
\* for line_index in range(0, len(self.data), 16)
HexViewLoop(d, line_index, pos, hex_str_list, positions) ==
    IF line_index >= Len(d)
    THEN [text |-> Join(<<"\n">>, hex_str_list), positions |-> positions]
    ELSE LET line_bytes == Slice(d, line_index, line_index + BytesPerLine)
             address == Address(line_index)
             r == HexLineLoop(line_bytes, 0, pos + Len(address), <<>>, <<>>)
             hex_line ==
                 address \o Join(<<" ">>, r.byte_group)
                   \o (IF Len(line_bytes) < 16
                       THEN Spaces(3 * (16 - Len(line_bytes))) ELSE <<>>)
         IN  HexViewLoop(d, line_index + BytesPerLine,
                 pos + Len(hex_line) + 1,
                 hex_str_list \o <<hex_line>>,
                 positions \o r.positions)

\* the hex text and self.hex_positions
loadHexView(d) ==
    HexViewLoop(d, 0, 0, <<>>, <<>>)

----------------------------------------------------------------------------
(* updateStringView: the text and self.string_byte_ranges.  An entry of    *)
(* string_byte_ranges is <<start_pos, end_pos, byte_start, byte_end>>.     *)

\* the ASCII branch, one line: the characters and the entries
AsciiLine(line_bytes, line_index, pos) ==
    [chars |-> [k \in 1..Len(line_bytes) |-> Glyph(line_bytes[k])]
                 \o (IF Len(line_bytes) < 16
                     THEN Spaces(16 - Len(line_bytes)) ELSE <<>>),
     ranges |-> [k \in 1..Len(line_bytes) |->
                   <<pos + k - 1, pos + k, line_index + k - 1, line_index + k>>],
     pos |-> pos + Len(line_bytes)
               + (IF Len(line_bytes) < 16 THEN 16 - Len(line_bytes) ELSE 0)]

RECURSIVE AsciiLoop(_, _, _, _, _)
\* the ASCII branch: for line_index in range(0, len(self.data), 16)
AsciiLoop(d, line_index, pos, string_lines, ranges) ==
    IF line_index >= Len(d)
    THEN [text |-> Join(<<"\n">>, string_lines), ranges |-> ranges]
    ELSE LET \* r: the line built; pos += 1 for the line break
             NextLine(r) ==
                 AsciiLoop(d, line_index + BytesPerLine, r.pos + 1,
                           string_lines \o <<r.chars>>, ranges \o r.ranges)
         IN  NextLine(AsciiLine(Slice(d, line_index,
                                      line_index + BytesPerLine),
                                line_index, pos))

RECURSIVE ValueLineLoop(_, _, _, _, _, _, _, _)
\* while i < len(line_bytes): decode one chunk, record its entry
ValueLineLoop(line_bytes, line_index, t, order, i, pos, values, ranges) ==
    LET size == SizeOf(t)
        chunk == Slice(line_bytes, i, i + size)
        \* values.append(value_str_padded), the entry, pos += len + 1
        Record(value_str_padded) ==
            ValueLineLoop(line_bytes, line_index, t, order, i + size,
                pos + Len(value_str_padded) + 1,
                values \o <<value_str_padded>>,
                ranges \o <<
                   <<pos, pos + Len(value_str_padded),
                     line_index + i, line_index + i + size>> >>)
    IN  IF i >= Len(line_bytes) \/ Len(chunk) < size
        THEN [i |-> i, pos |-> pos, values |-> values, ranges |-> ranges]
        ELSE Record(Ljust(Str(Unpack(order, FmtOf(t), chunk)),
                          data_type_width[t]))

\* the integer branch, one line, with the padding of a short line
ValueLine(line_bytes, line_index, t, order, pos) ==
    LET fixed_width == data_type_width[t]
        \* r: what the while loop left; pad_values blank fields follow
        Padded(r, pad_values) ==
            [chars |-> Join(<<" ">>,
                        r.values
                          \o [k \in 1..pad_values |-> Spaces(fixed_width)]),
             ranges |-> r.ranges,
             pos |-> r.pos + pad_values * (fixed_width + 1)]
        Pad(r) ==
            Padded(r, IF r.i < 16 THEN (16 - r.i) \div SizeOf(t) ELSE 0)
    IN  Pad(ValueLineLoop(line_bytes, line_index, t, order, 0, pos,
                          <<>>, <<>>))

RECURSIVE ValueLoop(_, _, _, _, _, _, _)
\* the integer branch: for line_index in range(0, len(self.data), 16)
ValueLoop(d, t, order, line_index, pos, string_lines, ranges) ==
    IF line_index >= Len(d)
    THEN [text |-> Join(<<"\n">>, string_lines), ranges |-> ranges]
    ELSE LET \* r: the line built; pos += 1 for the line break
             NextLine(r) ==
                 ValueLoop(d, t, order, line_index + BytesPerLine, r.pos + 1,
                           string_lines \o <<r.chars>>, ranges \o r.ranges)
         IN  NextLine(ValueLine(Slice(d, line_index,
                                      line_index + BytesPerLine),
                                line_index, t, order, pos))

\* the text and the offset table that updateStringView builds; the struct
\* formats carry no byte-order prefix, so the host's byte order bo decides
StringView(d, t, bo) ==
    IF t = "ASCII"
    THEN AsciiLoop(d, 0, 0, <<>>, <<>>)
    ELSE ValueLoop(d, t, NativeOrder(bo), 0, 0, <<>>, <<>>)

----------------------------------------------------------------------------
(* highlightIndex, with the clearHighlights it starts with.  The result    *)
(* is the two text cursors and the two sets of highlighted positions.      *)

\* the first entry of string_byte_ranges whose byte range contains b,
\* as a sequence of zero or one entries
FindRange(ranges, b) ==
    LET hits == {k \in 1..Len(ranges) : ranges[k][3] <= b /\ b < ranges[k][4]}
    IN  IF hits = {} THEN <<>>
        ELSE <<ranges[CHOOSE k \in hits : \A j \in hits : k <= j]>>

\* clearHighlights: both cursors select the document, no highlight is left
clearHighlights(hexv, strv) ==
    [hex_cursor |-> SelectDocument(hexv), str_cursor |-> SelectDocument(strv),
     hex_highlight |-> {}, str_highlight |-> {}]

\* the hex cursor highlightIndex builds for byte_index
HighlightHexCursor(hexv, byte_index) ==
    LET line_num == byte_index \div 16
        byte_in_line == byte_index % 16
        address == Address((byte_index \div 16) * 16)
        pos_in_line == byte_in_line * 3 + (byte_in_line \div 4) * 2
        c0 == SetPosition(SelectDocument(hexv),
                          BlockPosition(hexv, line_num), hexv)
        c1 == MoveRight(c0, Len(address), hexv)
        c2 == MoveRight(c1, pos_in_line, hexv)
    IN  MoveRightKeep(c2, 2, hexv)

\* the value-view cursor highlightIndex builds for byte_index
HighlightStrCursor(strv, ranges, t, byte_index) ==
    LET block_num == byte_index \div 16
        char_in_block == byte_index % 16
        c0 == SetPosition(SelectDocument(strv),
                          BlockPosition(strv, block_num) + char_in_block, strv)
        hit == FindRange(ranges, byte_index)
    IN  IF t = "ASCII" THEN SetPositionKeep(c0, c0[2] + 1, strv)
        ELSE IF hit = <<>> THEN c0
        ELSE SetPositionKeep(SetPosition(c0, hit[1][1], strv),
                             hit[1][2], strv)

\* a slip: an index beyond the buffer lands on the last byte
highlightIndex_Last(d, byte_index, t, hexv, strv, ranges) ==
    LET Both(hc, sc) ==
            [hex_cursor |-> hc, str_cursor |-> sc,
             hex_highlight |-> Painted(hc), str_highlight |-> Painted(sc)]
        At(b) ==
            Both(HighlightHexCursor(hexv, b),
                 HighlightStrCursor(strv, ranges, t, b))
    IN  IF Len(d) = 0 THEN clearHighlights(hexv, strv)
        ELSE At(Min(byte_index, Len(d) - 1))

highlightIndex(d, byte_index, t, hexv, strv, ranges) ==
    LET cleared == clearHighlights(hexv, strv)
        \* the return after the hex view was highlighted
        HexOnly(hc) ==
            [cleared EXCEPT !.hex_cursor = hc, !.hex_highlight = Painted(hc)]
        Both(hc, sc) ==
            [hex_cursor |-> hc, str_cursor |-> sc,
             hex_highlight |-> Painted(hc), str_highlight |-> Painted(sc)]
    IN  IF byte_index >= Len(d) THEN cleared
        ELSE IF byte_index \div 16 >= BlockCount(hexv) THEN cleared
        ELSE IF byte_index \div 16 >= BlockCount(strv)
        THEN HexOnly(HighlightHexCursor(hexv, byte_index))
        ELSE Both(HighlightHexCursor(hexv, byte_index),
                  HighlightStrCursor(strv, ranges, t, byte_index))

----------------------------------------------------------------------------
(* showRepresentations.  The pane is a sequence of lines; a line is        *)
(* [label, fmt, val, txt]: fmt the struct format of a numeric line, val    *)
(* its integer value, txt the characters printed after label and value.    *)
(* The value of a float or double line is kept as the pair of its format   *)
(* and the hex digits of the bytes it was unpacked from.                   *)

Line(label, fmt, val, txt) ==
    [label |-> label, fmt |-> fmt, val |-> val, txt |-> txt]

\* setPlainText(message)
Message(m) ==
    <<Line(m, <<>>, <<0, 0>>, <<>>)>>

\* the characters for which str.isalnum is true: digits and letters
AlnumChars ==
    {Printable[k] : k \in (17..26) \cup (34..59) \cup (66..91)}

\* str.isalnum on one character
IsAlnum(c) ==
    c \in AlnumChars

\* the lowercase hex digits
LowerHexDigits ==
    <<"0", "1", "2", "3", "4", "5", "6", "7",
      "8", "9", "a", "b", "c", "d", "e", "f">>

\* the hex digits bytes.fromhex accepts, with their values
HexValues ==
    [c \in {HexDigits[k] : k \in 1..16} \cup {LowerHexDigits[k] : k \in 1..16}
       |-> CHOOSE v \in 0..15 :
             c = HexDigits[v + 1] \/ c = LowerHexDigits[v + 1]]

\* the value of a hex digit, -1 for any other character
HexValue(c) ==
    IF c \in DOMAIN HexValues THEN HexValues[c] ELSE -1

\* ''.join(filter(str.isalnum, selected_text))
CleanHex(selected_text) ==
    SelectSeq(selected_text, IsAlnum)

\* bytes.fromhex(clean_hex) for an even number of hex digits
FromHex(clean_hex) ==
    [k \in 1..(Len(clean_hex) \div 2) |->
        16 * HexValue(clean_hex[2 * k - 1]) + HexValue(clean_hex[2 * k])]

\* '0x' + byte_values[0:n].hex().upper()
ValHex(byte_values, n) ==
    <<"0", "x">> \o Join(<<>>, [k \in 1..n |-> Hex02(byte_values[k])])

\* the two integer lines of one width
IntLines(byte_values, endian_char, n, sletter, uletter, slabel, ulabel) ==
    LET \* head: byte_values[0:n]; val_hex: its hex digits
        Lines(head, val_hex) ==
            << Line(slabel, <<endian_char, sletter>>,
                    Unpack(endian_char, sletter, head), val_hex),
               Line(ulabel, <<endian_char, uletter>>,
                    Unpack(endian_char, uletter, head), val_hex) >>
    IN  Lines(SubSeq(byte_values, 1, n), ValHex(byte_values, n))

\* a slip: the selector is not consulted, every line is decoded little-endian
EndianChar_Ignored(e) ==
    "<"

\* endian_char = '<' if endian == 'Little Endian' else '>'
EndianChar(e) ==
    IF e = "Little Endian" THEN "<" ELSE ">"

\* the lines built for the parsed bytes
Representations(byte_values, e) ==
    LET endian_char == EndianChar(e)
        n == Len(byte_values)
    IN  << Line("Hex", <<>>, <<0, 0>>,
                Join(<<" ">>, [k \in 1..n |-> Hex02(byte_values[k])])),
           Line("ASCII", <<>>, <<0, 0>>, [k \in 1..n |-> Glyph(byte_values[k])]) >>
        \o (IF n >= 1
            THEN IntLines(byte_values, endian_char, 1, "b", "B",
                          "Signed 8-bit Int", "Unsigned 8-bit Int")
            ELSE <<>>)
        \o (IF n >= 2
            THEN IntLines(byte_values, endian_char, 2, "h", "H",
                          "Signed 16-bit Int", "Unsigned 16-bit Int")
            ELSE <<>>)
        \o (IF n >= 4
            THEN IntLines(byte_values, endian_char, 4, "i", "I",
                          "Signed 32-bit Int", "Unsigned 32-bit Int")
            ELSE <<>>)
        \o (IF n >= 4
            THEN <<Line("Float (32-bit)", <<endian_char, "f">>, <<0, 0>>,
                        ValHex(byte_values, 4))>>
            ELSE <<>>)
        \o (IF n >= 8
            THEN <<Line("Double (64-bit)", <<endian_char, "d">>, <<0, 0>>,
                        ValHex(byte_values, 8))>>
            ELSE <<>>)

\* the new content of representations_view
showRepresentations(hexv, hc, e) ==
    LET Parse(clean_hex) ==
            IF Len(clean_hex) % 2 # 0
            THEN Message("Invalid selection. Please select whole bytes.")
            ELSE IF \E k \in 1..Len(clean_hex) : HexValue(clean_hex[k]) < 0
            THEN Message("Invalid hex selection.")
            ELSE Representations(FromHex(clean_hex), e)
        Show(selected_text) ==
            IF selected_text = <<>> THEN Message("No bytes selected.")
            ELSE Parse(CleanHex(selected_text))
    IN  Show(SelectedText(hc, hexv))

----------------------------------------------------------------------------
(* Selection synchronisation helpers.                                      *)

\* getSelectedBytesHex: the selected byte indices, ascending
getSelectedBytesHex(positions, hc) ==
    LET selection_start == SelStart(hc)
        selection_end == SelEnd(hc)
        Hit(byte_idx) ==
            LET byte_start == positions[byte_idx + 1]
                byte_end == positions[byte_idx + 1] + 2
            IN  /\ ~(byte_end < selection_start \/ byte_start > selection_end)
                /\ \/ byte_start <= selection_start /\ selection_start < byte_end
                   \/ byte_start < selection_end /\ selection_end <= byte_end
                   \/ selection_start <= byte_start /\ selection_end >= byte_end
    IN  {b \in 0..(Len(positions) - 1) : Hit(b)}

\* a slip: only the first byte of each overlapping entry is collected
getSelectedBytesString_FirstByte(ranges, sc) ==
    LET selection_start == SelStart(sc)
        selection_end == SelEnd(sc)
    IN  IF selection_start = selection_end THEN {}
        ELSE { ranges[k][3] :
                 k \in {j \in 1..Len(ranges) :
                          ~(ranges[j][2] <= selection_start
                            \/ ranges[j][1] >= selection_end)} }

\* getSelectedBytesString: the selected byte indices
getSelectedBytesString(ranges, sc) ==
    LET selection_start == SelStart(sc)
        selection_end == SelEnd(sc)
    IN  IF selection_start = selection_end THEN {}
        ELSE UNION { ranges[k][3]..(ranges[k][4] - 1) :
                       k \in {j \in 1..Len(ranges) :
                                ~(ranges[j][2] <= selection_start
                                  \/ ranges[j][1] >= selection_end)} }

\* byte_indices[0] and byte_indices[-1] of a sorted non-empty list
First(S) ==
    CHOOSE x \in S : \A y \in S : x <= y

Last(S) ==
    CHOOSE x \in S : \A y \in S : x >= y

\* applySelectionToStringView(byte_start, byte_end): the new cursor
applySelectionToStringView(ranges, strv, sc, byte_start, byte_end) ==
    LET found == {k \in 1..Len(ranges) :
                    ~(byte_end <= ranges[k][3] \/ byte_start >= ranges[k][4])}
    IN  IF found = {} THEN sc
        ELSE LET selection_start == First({ranges[k][1] : k \in found})
                 selection_end == Last({ranges[k][2] : k \in found})
             IN  SetPositionKeep(SetPosition(sc, selection_start, strv),
                                 selection_end + 1, strv)

\* applySelectionToHexView(byte_start, byte_end): the new cursor
applySelectionToHexView(positions, hexv, hc, byte_start, byte_end) ==
    IF byte_start >= Len(positions) \/ byte_end >= Len(positions) THEN hc
    ELSE SetPositionKeep(SetPosition(hc, positions[byte_start + 1], hexv),
                         positions[byte_end + 1] + 2, hexv)

----------------------------------------------------------------------------
(* Inputs.                                                                 *)

\* two byte patterns: 00 01 02 ... and 01 00 00 00 followed by mixed bytes
Pattern(k, i) ==
    IF k = 1 THEN i % 256
    ELSE IF i < 4 THEN (IF i = 0 THEN 1 ELSE 0)
    ELSE (i * 59 + 140) % 256

Buffer(k, n) ==
    [i \in 1..n |-> Pattern(k, i - 1)]

\* the buffer lengths tried: empty, shorter than an element, a full row,
\* a row and a bit, and the longest
Lengths ==
    {0, 1, 4, 5, 16, 17, MaxLen}

\* a buffer of 16 + 3 bytes holding the extreme values of every integer
\* mode in either byte order: 00 00 00 80, 80 00 00 00, FF FF FF 7F,
\* 7F FF FF FF, and 00 80 FF in the short row
ExtremeBuffer ==
    <<0, 0, 0, 128,  128, 0, 0, 0,  255, 255, 255, 127,  127, 255, 255, 255,
      0, 128, 255>>

\* buffers of the view specification
Buffers ==
    {Buffer(2, n) : n \in Lengths} \cup {ExtremeBuffer}

\* the index argument of the command line: every index of the buffer, and
\* two out of range
Indices(d) ==
    0..Len(d) \cup {1000}

\* buffers of the selection specification
SelBuffers ==
    {Buffer(2, n) : n \in {0, 1, 5, MaxLen}}

\* updateStringView is a function of the buffer, the data type and the
\* host's byte order: its results, computed once for the buffers above
StringViewOf ==
    [d \in Buffers \cup SelBuffers, t \in {DataTypes[k] : k \in 1..7},
     bo \in {"little", "big"} |-> StringView(d, t, bo)]

\* loadHexView is a function of the buffer
HexViewOf ==
    [d \in Buffers \cup SelBuffers |-> loadHexView(d)]

\* the bytes a user selection starts at: the first one, the last one, and
\* one near the end of the first row
FocusBytes(n) ==
    {b \in 0..(n - 1) : b = 0 \/ b = n - 1 \/ b = 14}

\* the selections <<anchor, position>> a user makes in the hex view from
\* byte b on: the glyphs of 1..MaxSpan bytes, a caret before and after the
\* glyph, the first digit only, and the blanks between two glyphs
HexRanges(b) ==
    LET p == hex_positions[b + 1]
    IN  {<<p, hex_positions[b + n] + 2>> :
            n \in {m \in 1..MaxSpan : b + m <= Len(data)}}
        \cup {<<p, p>>, <<p, p + 1>>, <<p + 2, p + 2>>}
        \cup (IF b + 1 < Len(data)
              THEN {<<p + 2, hex_positions[b + 2]>>} ELSE {})

\* the same in the value view from entry k on, inside the text
StrRanges(k) ==
    LET s == string_byte_ranges[k][1]
        e == string_byte_ranges[k][2]
    IN  ( {<<s, string_byte_ranges[k + n - 1][2]>> :
              n \in {m \in 1..MaxSpan : k + m - 1 <= Len(string_byte_ranges)}}
          \cup {<<s, s>>, <<s, s + 1>>, <<e, e>>}
          \cup (IF k < Len(string_byte_ranges)
                THEN {<<e, string_byte_ranges[k + 1][1]>>} ELSE {}) )
        \cap ((0..Len(string_view)) \X (0..Len(string_view)))

----------------------------------------------------------------------------
(* The state machine.                                                      *)

Event(op, lo, hi) ==
    [op |-> op, lo |-> lo, hi |-> hi]

\* MainWindow.__init__ / initUI: loadHexView(), then updateStringView()
\* with the combo boxes on their first items
InitWith(d, i, bo) ==
    LET \* hv, sv: the views built; hl: what highlightIndex left
        Shown(hv, sv, hl) ==
            /\ data = d
            /\ index = i
            /\ original_index = i
            /\ byteorder = bo
            /\ data_type = "ASCII"
            /\ endian = "Little Endian"
            /\ hex_view = hv.text
            /\ hex_positions = hv.positions
            /\ string_view = sv.text
            /\ string_byte_ranges = sv.ranges
            /\ hex_cursor = hl.hex_cursor
            /\ str_cursor = hl.str_cursor
            /\ hex_highlight = hl.hex_highlight
            /\ str_highlight = hl.str_highlight
            /\ representations_view = <<>>
            /\ syncing_selection = FALSE
            /\ event = Event("init", -1, -1)
            /\ syncing_scroll = FALSE
            /\ hex_scroll = 0
            /\ str_scroll = 0
            /\ scrolled = [view |-> "none", value |-> 0, mirrors |-> 0]
            /\ stack = <<>>
            /\ row_start = 0
            /\ row_address = Address(0)
        Built(hv, sv) ==
            Shown(hv, sv,
                  highlightIndex(d, i, "ASCII", hv.text, sv.text, sv.ranges))
    IN  Built(HexViewOf[d], StringViewOf[d, "ASCII", bo])

Init ==
    \E d \in Buffers, bo \in {"little", "big"} :
        \E i \in Indices(d) : InitWith(d, i, bo)

\* the selection specification runs on a little-endian host: the byte
\* order changes the digits of the value text only
InitSel ==
    \E d \in SelBuffers : InitWith(d, 0, "little")

\* data_type_combo.currentIndexChanged -> updateStringView
updateStringView(t) ==
    LET \* sv: the text and table built; hl: what highlightIndex left
        Shown(sv, hl) ==
            /\ data_type' = t
            /\ string_view' = sv.text
            /\ string_byte_ranges' = sv.ranges
            /\ hex_cursor' = hl.hex_cursor
            /\ str_cursor' = hl.str_cursor
            /\ hex_highlight' = hl.hex_highlight
            /\ str_highlight' = hl.str_highlight
            /\ event' = Event("mode", -1, -1)
            /\ UNCHANGED <<data, index, original_index, byteorder, endian,
                           hex_view, hex_positions, representations_view,
                           syncing_selection, scroll_vars, stack, row_vars>>
        Built(sv) ==
            Shown(sv, highlightIndex(data, index, t, hex_view,
                                     sv.text, sv.ranges))
    IN  /\ t # data_type
        /\ Built(StringViewOf[data, t, byteorder])

\* reset_button.clicked -> goToOriginalIndex
goToOriginalIndex ==
    LET \* hl: what highlightIndex left
        Shown(hl) ==
            /\ hex_cursor' = hl.hex_cursor
            /\ str_cursor' = hl.str_cursor
            /\ hex_highlight' = hl.hex_highlight
            /\ str_highlight' = hl.str_highlight
    IN  /\ index' = original_index
        /\ Shown(highlightIndex(data, original_index, data_type, hex_view,
                                string_view, string_byte_ranges))
        /\ event' = Event("reset", -1, -1)
        /\ UNCHANGED <<data, original_index, byteorder, data_type, endian,
                       hex_view, hex_positions, string_view,
                       string_byte_ranges, representations_view,
                       syncing_selection, scroll_vars, stack, row_vars>>

\* endian_combo.currentIndexChanged -> showRepresentations
endianChanged(e) ==
    /\ e # endian
    /\ endian' = e
    /\ representations_view' = showRepresentations(hex_view, hex_cursor, e)
    /\ event' = Event("endian", -1, -1)
    /\ UNCHANGED <<data, index, original_index, byteorder, data_type,
                   hex_view, hex_positions, string_view, string_byte_ranges,
                   hex_cursor, str_cursor, hex_highlight, str_highlight,
                   syncing_selection, scroll_vars, stack, row_vars>>

\* the user selects [a, p) in the hex view and releases the mouse:
\* hex_view.selectionFinished -> onHexSelectionChanged
onHexSelectionChanged(a, p) ==
    LET hc == <<a, p>>
        Sync(byte_indices) ==
            IF byte_indices # {}
            THEN /\ str_cursor' =
                      applySelectionToStringView(string_byte_ranges,
                          string_view, str_cursor,
                          First(byte_indices), Last(byte_indices))
                 /\ representations_view' =
                      showRepresentations(hex_view, hc, endian)
                 /\ event' = Event("hex", First(byte_indices),
                                   Last(byte_indices))
            ELSE /\ str_cursor' = ClearSelection(str_cursor)
                 /\ representations_view' = <<>>
                 /\ event' = Event("hex", -1, -1)
    IN  /\ ~syncing_selection
        /\ hex_cursor' = hc
        /\ Sync(getSelectedBytesHex(hex_positions, hc))
        /\ syncing_selection' = FALSE
        /\ UNCHANGED <<data, index, original_index, byteorder, data_type,
                       endian, hex_view, hex_positions, string_view,
                       string_byte_ranges, hex_highlight, str_highlight,
                       scroll_vars, stack, row_vars>>

\* the user selects [a, p) in the value view and releases the mouse:
\* string_view.selectionFinished -> onStringSelectionChanged
onStringSelectionChanged(a, p) ==
    LET sc == <<a, p>>
        \* hc: the hex cursor applySelectionToHexView left
        Show(byte_indices, hc) ==
            /\ hex_cursor' = hc
            /\ representations_view' =
                 showRepresentations(hex_view, hc, endian)
            /\ event' = Event("str", First(byte_indices), Last(byte_indices))
        Sync(byte_indices) ==
            IF byte_indices # {}
            THEN Show(byte_indices,
                      applySelectionToHexView(hex_positions, hex_view,
                          hex_cursor, First(byte_indices),
                          Last(byte_indices)))
            ELSE /\ hex_cursor' = ClearSelection(hex_cursor)
                 /\ representations_view' = <<>>
                 /\ event' = Event("str", -1, -1)
    IN  /\ ~syncing_selection
        /\ str_cursor' = sc
        /\ Sync(getSelectedBytesString(string_byte_ranges, sc))
        /\ syncing_selection' = FALSE
        /\ UNCHANGED <<data, index, original_index, byteorder, data_type,
                       endian, hex_view, hex_positions, string_view,
                       string_byte_ranges, hex_highlight, str_highlight,
                       scroll_vars, stack, row_vars>>

\* a mouse selection in the hex view
HexSelect ==
    \E b \in FocusBytes(Len(data)) :
        \E r \in HexRanges(b) : onHexSelectionChanged(r[1], r[2])

\* a mouse selection in the value view, from the entry of a focus byte on
StrSelect ==
    \E k \in 1..Len(string_byte_ranges) :
      /\ \E b \in FocusBytes(Len(data)) :
            string_byte_ranges[k][3] <= b /\ b < string_byte_ranges[k][4]
      /\ \E r \in StrRanges(k) : onStringSelectionChanged(r[1], r[2])

ModeChange ==
    \E k \in 1..7 : updateStringView(DataTypes[k])

EndianChange ==
    \E k \in 1..2 : endianChanged(Endians[k])

\* the views without user selections
Next ==
    \/ ModeChange
    \/ goToOriginalIndex
    \/ EndianChange

Spec ==
    Init /\ [][Next]_vars

\* the views with user selections
NextSel ==
    \/ ModeChange
    \/ EndianChange
    \/ HexSelect
    \/ StrSelect

SpecSel ==
    InitSel /\ [][NextSel]_vars

----------------------------------------------------------------------------
(* Scrolling.  A signal of Qt is delivered by a direct call, so a handler  *)
(* runs inside the call that emitted the signal: stack is the sequence of  *)
(* handler calls in progress, the innermost last.  A frame is the handler, *)
(* its argument and the statement it is at.  Both views show one row per   *)
(* 16 bytes at the same fixed height, so the two vertical scroll bars have *)
(* the same range 0..ScrollMax.                                            *)

Frame(fn, value, pc) ==
    [fn |-> fn, value |-> value, pc |-> pc]

Top ==
    stack[Len(stack)]

Pop ==
    SubSeq(stack, 1, Len(stack) - 1)

\* the innermost call moves on to statement pc
Goto(pc) ==
    [stack EXCEPT ![Len(stack)].pc = pc]

\* valueChanged.connect(...) of initUI: the handler of a view's scroll bar
ScrollHandler(view) ==
    IF view = "hex" THEN "syncScrollBarsFromHex"
    ELSE "syncScrollBarsFromString"

\* the view whose scroll bar a scroll handler sets
ScrollTarget(fn) ==
    IF fn = "syncScrollBarsFromHex" THEN "string" ELSE "hex"

ScrollOf(view) ==
    IF view = "hex" THEN hex_scroll ELSE str_scroll

\* QScrollBar.setValue: the value is kept inside the range
SetValue(value) ==
    Min(Max(value, 0), ScrollMax)

\* the user scrolls a view to value v: its scroll bar takes the value and
\* emits valueChanged(v), which calls the view's handler
UserScroll(view, v) ==
    /\ stack = <<>>
    /\ v # ScrollOf(view)
    /\ hex_scroll' = IF view = "hex" THEN v ELSE hex_scroll
    /\ str_scroll' = IF view = "string" THEN v ELSE str_scroll
    /\ scrolled' = [view |-> view, value |-> v, mirrors |-> 0]
    /\ stack' = <<Frame(ScrollHandler(view), v, "enter")>>
    /\ UNCHANGED <<syncing_scroll, window_vars, row_vars>>

\* a slip: the handler does not look at the latch
syncScrollBarsEnter_NoGuard ==
    /\ stack # <<>>
    /\ Top.pc = "enter"
    /\ syncing_scroll' = TRUE
    /\ stack' = Goto("set")
    /\ UNCHANGED <<hex_scroll, str_scroll, scrolled, window_vars, row_vars>>

\* if not self.syncing_scroll: self.syncing_scroll = True; otherwise the
\* handler returns
syncScrollBarsEnter ==
    /\ stack # <<>>
    /\ Top.pc = "enter"
    /\ IF ~syncing_scroll
       THEN /\ syncing_scroll' = TRUE
            /\ stack' = Goto("set")
       ELSE /\ stack' = Pop
            /\ UNCHANGED syncing_scroll
    /\ UNCHANGED <<hex_scroll, str_scroll, scrolled, window_vars, row_vars>>

\* <other view>.verticalScrollBar().setValue(value): a scroll bar whose
\* value changes emits valueChanged, which calls the handler of its view
\* before setValue returns
syncScrollBarsSetValue ==
    LET target == ScrollTarget(Top.fn)
        Set(new) ==
            /\ hex_scroll' = IF target = "hex" THEN new ELSE hex_scroll
            /\ str_scroll' = IF target = "string" THEN new ELSE str_scroll
            /\ stack' = IF new # ScrollOf(target)
                        THEN Goto("leave")
                               \o <<Frame(ScrollHandler(target), new, "enter")>>
                        ELSE Goto("leave")
    IN  /\ stack # <<>>
        /\ Top.pc = "set"
        /\ Set(SetValue(Top.value))
        /\ scrolled' = [scrolled EXCEPT !.mirrors = @ + 1]
        /\ UNCHANGED <<syncing_scroll, window_vars, row_vars>>

\* self.syncing_scroll = False, and the handler returns
syncScrollBarsLeave ==
    /\ stack # <<>>
    /\ Top.pc = "leave"
    /\ syncing_scroll' = FALSE
    /\ stack' = Pop
    /\ UNCHANGED <<hex_scroll, str_scroll, scrolled, window_vars, row_vars>>

\* a scroll event of the user in either view
Scroll ==
    \E view \in {"hex", "string"}, v \in 0..ScrollMax : UserScroll(view, v)

\* a statement of a scroll handler
ScrollHandlerStep ==
    \/ syncScrollBarsEnter
    \/ syncScrollBarsSetValue
    \/ syncScrollBarsLeave

\* the scroll handlers read and write the scroll bars and the latch only:
\* the texts stay as built, and the range of the bars is the bound
\* ScrollMax rather than the row count of the buffer
InitScroll ==
    InitWith(Buffer(2, MaxLen), 0, "little")

NextScroll ==
    \/ Scroll
    \/ ScrollHandlerStep

\* scrolling: a handler that was called runs to its return, as the calls
\* are direct calls on the one thread of the program
SpecScroll ==
    InitScroll /\ [][NextScroll]_vars /\ WF_vars(ScrollHandlerStep)

----------------------------------------------------------------------------
(* The selection handlers, statement by statement.                         *)

\* selectionFinished.connect(...) of initUI: the handler of a view
SelectionHandler(view) ==
    IF view = "hex" THEN "onHexSelectionChanged"
    ELSE "onStringSelectionChanged"

\* CustomTextEdit emits selectionFinished in mouseReleaseEvent and nowhere
\* else: setTextCursor emits Qt's own signals only, and nothing is
\* connected to those
EmitsSelectionFinished(cause) ==
    cause = "mouseReleaseEvent"

\* the handler calls that something done to a view gives rise to
Calls(view, cause) ==
    IF EmitsSelectionFinished(cause)
    THEN <<Frame(SelectionHandler(view), 0, "enter")>>
    ELSE <<>>

\* CustomTextEdit.mouseReleaseEvent: the user has selected [a, p) in a
\* view and releases the mouse; selectionFinished.emit() calls the handler
mouseReleaseEvent(view, a, p) ==
    /\ stack = <<>>
    /\ hex_cursor' = IF view = "hex" THEN <<a, p>> ELSE hex_cursor
    /\ str_cursor' = IF view = "string" THEN <<a, p>> ELSE str_cursor
    /\ stack' = Calls(view, "mouseReleaseEvent")
    /\ UNCHANGED <<data, index, original_index, byteorder, data_type,
                   endian, hex_view, hex_positions, string_view,
                   string_byte_ranges, hex_highlight, str_highlight,
                   representations_view, syncing_selection, event,
                   scroll_vars, row_vars>>

\* if self.syncing_selection: return; self.syncing_selection = True
onSelectionChangedEnter ==
    /\ stack # <<>>
    /\ Top.pc = "enter"
    /\ IF syncing_selection
       THEN /\ stack' = Pop
            /\ UNCHANGED syncing_selection
       ELSE /\ syncing_selection' = TRUE
            /\ stack' = Goto("sync")
    /\ UNCHANGED <<data, index, original_index, byteorder, data_type,
                   endian, hex_view, hex_positions, string_view,
                   string_byte_ranges, hex_cursor, str_cursor,
                   hex_highlight, str_highlight, representations_view,
                   event, scroll_vars, row_vars>>

\* a slip: the branch of the empty selection returns with the latch set
onHexSelectionChangedSync_EmptyReturns ==
    LET Sync(byte_indices) ==
            IF byte_indices # {}
            THEN /\ str_cursor' =
                      applySelectionToStringView(string_byte_ranges,
                          string_view, str_cursor,
                          First(byte_indices), Last(byte_indices))
                 /\ representations_view' =
                      showRepresentations(hex_view, hex_cursor, endian)
                 /\ event' = Event("hex", First(byte_indices),
                                   Last(byte_indices))
                 /\ stack' = Goto("leave") \o Calls("string", "setTextCursor")
            ELSE /\ str_cursor' = ClearSelection(str_cursor)
                 /\ representations_view' = <<>>
                 /\ event' = Event("hex", -1, -1)
                 /\ stack' = Pop
    IN  /\ stack # <<>>
        /\ Top.fn = "onHexSelectionChanged"
        /\ Top.pc = "sync"
        /\ Sync(getSelectedBytesHex(hex_positions, hex_cursor))
        /\ UNCHANGED <<data, index, original_index, byteorder, data_type,
                       endian, hex_view, hex_positions, string_view,
                       string_byte_ranges, hex_cursor, hex_highlight,
                       str_highlight, syncing_selection, scroll_vars,
                       row_vars>>

\* onHexSelectionChanged from getSelectedBytesHex() to the end of the
\* if/else: the string view's cursor is set or cleared, the pane filled
\* or emptied
onHexSelectionChangedSync ==
    LET Sync(byte_indices) ==
            IF byte_indices # {}
            THEN /\ str_cursor' =
                      applySelectionToStringView(string_byte_ranges,
                          string_view, str_cursor,
                          First(byte_indices), Last(byte_indices))
                 /\ representations_view' =
                      showRepresentations(hex_view, hex_cursor, endian)
                 /\ event' = Event("hex", First(byte_indices),
                                   Last(byte_indices))
            ELSE /\ str_cursor' = ClearSelection(str_cursor)
                 /\ representations_view' = <<>>
                 /\ event' = Event("hex", -1, -1)
    IN  /\ stack # <<>>
        /\ Top.fn = "onHexSelectionChanged"
        /\ Top.pc = "sync"
        /\ Sync(getSelectedBytesHex(hex_positions, hex_cursor))
        /\ stack' = Goto("leave") \o Calls("string", "setTextCursor")
        /\ UNCHANGED <<data, index, original_index, byteorder, data_type,
                       endian, hex_view, hex_positions, string_view,
                       string_byte_ranges, hex_cursor, hex_highlight,
                       str_highlight, syncing_selection, scroll_vars,
                       row_vars>>

\* onStringSelectionChanged from getSelectedBytesString() to the end of
\* the if/else
onStringSelectionChangedSync ==
    LET \* hc: the hex cursor applySelectionToHexView left
        Show(byte_indices, hc) ==
            /\ hex_cursor' = hc
            /\ representations_view' =
                 showRepresentations(hex_view, hc, endian)
            /\ event' = Event("str", First(byte_indices), Last(byte_indices))
        Sync(byte_indices) ==
            IF byte_indices # {}
            THEN Show(byte_indices,
                      applySelectionToHexView(hex_positions, hex_view,
                          hex_cursor, First(byte_indices),
                          Last(byte_indices)))
            ELSE /\ hex_cursor' = ClearSelection(hex_cursor)
                 /\ representations_view' = <<>>
                 /\ event' = Event("str", -1, -1)
    IN  /\ stack # <<>>
        /\ Top.fn = "onStringSelectionChanged"
        /\ Top.pc = "sync"
        /\ Sync(getSelectedBytesString(string_byte_ranges, str_cursor))
        /\ stack' = Goto("leave") \o Calls("hex", "setTextCursor")
        /\ UNCHANGED <<data, index, original_index, byteorder, data_type,
                       endian, hex_view, hex_positions, string_view,
                       string_byte_ranges, str_cursor, hex_highlight,
                       str_highlight, syncing_selection, scroll_vars,
                       row_vars>>

\* self.syncing_selection = False, and the handler returns
onSelectionChangedLeave ==
    /\ stack # <<>>
    /\ Top.pc = "leave"
    /\ syncing_selection' = FALSE
    /\ stack' = Pop
    /\ UNCHANGED <<data, index, original_index, byteorder, data_type,
                   endian, hex_view, hex_positions, string_view,
                   string_byte_ranges, hex_cursor, str_cursor,
                   hex_highlight, str_highlight, representations_view,
                   event, scroll_vars, row_vars>>

\* a mouse selection in the hex view
HexRelease ==
    \E b \in FocusBytes(Len(data)) :
        \E r \in HexRanges(b) : mouseReleaseEvent("hex", r[1], r[2])

\* a mouse selection in the value view, from the entry of a focus byte on
StrRelease ==
    \E k \in 1..Len(string_byte_ranges) :
      /\ \E b \in FocusBytes(Len(data)) :
            string_byte_ranges[k][3] <= b /\ b < string_byte_ranges[k][4]
      /\ \E r \in StrRanges(k) : mouseReleaseEvent("string", r[1], r[2])

\* the combo boxes are served between two events, when no handler runs
ModeChangeWhenIdle ==
    /\ stack = <<>>
    /\ ModeChange

EndianChangeWhenIdle ==
    /\ stack = <<>>
    /\ EndianChange

\* buffers of the statement-level selection specification
GuardBuffers ==
    {Buffer(2, n) : n \in {1, 5}}

InitGuard ==
    \E d \in GuardBuffers : InitWith(d, 0, "little")

NextGuard ==
    \/ HexRelease
    \/ StrRelease
    \/ onSelectionChangedEnter
    \/ onHexSelectionChangedSync
    \/ onStringSelectionChangedSync
    \/ onSelectionChangedLeave
    \/ ModeChangeWhenIdle
    \/ EndianChangeWhenIdle

\* selections, mode changes and endianness changes, the handlers taken
\* statement by statement
SpecGuard ==
    InitGuard /\ [][NextGuard]_vars

\* loadHexView, for line_index in range(0, len(self.data), 16): the next
\* row and its prefix.  The prefix is a function of the row start alone,
\* so the rows of a long file are stepped through without its bytes.
NextRow ==
    /\ row_start + BytesPerLine < MaxFileLen
    /\ row_start' = row_start + BytesPerLine
    /\ row_address' = Address(row_start + BytesPerLine)
    /\ UNCHANGED <<window_vars, scroll_vars, stack>>

\* the first row; the window's texts play no part and stay as built
InitRows ==
    InitWith(<<>>, 0, "little")

\* the row prefixes of a file of MaxFileLen bytes
SpecRows ==
    InitRows /\ [][NextRow]_vars

----------------------------------------------------------------------------
(* Vocabulary of the properties.                                           *)

IntegerMode ==
    data_type # "ASCII"

\* the bytes data[lo], ..., data[hi - 1] of the buffer
Bytes(lo, hi) ==
    [k \in 1..(hi - lo) |-> data[lo + k]]

\* the characters of text at the positions [s, e)
TextAt(text, s, e) ==
    [k \in 1..(e - s) |-> text[s + k]]

\* the byte order the selector asks for
SelectedOrder ==
    IF endian = "Little Endian" THEN "<" ELSE ">"

\* the fixed-width rendering of the element at bytes [lo, hi), decoded in
\* byte order o
Rendering(lo, hi, o) ==
    Ljust(Str(Unpack(o, FmtOf(data_type), Bytes(lo, hi))),
          data_type_width[data_type])

\* byte b belongs to an element that has all its bytes
InCompleteElement(b) ==
    b < Len(data) - (Len(data) % SizeOf(data_type))

\* where the field of the element holding byte b lies in a text whose rows
\* are (16 / size) fields of the fixed width, one blank between fields, one
\* line break between rows
FieldStart(b) ==
    LET size == SizeOf(data_type)
        w == data_type_width[data_type]
        perRow == 16 \div size
        sep == IF data_type = "ASCII" THEN 0 ELSE 1
        rowLen == perRow * w + (perRow - 1) * sep + 1
    IN  (b \div 16) * rowLen + ((b % 16) \div size) * (w + sep)

----------------------------------------------------------------------------
(* C1: in every integer render mode, after the initial load and after any  *)
(* sequence of mode changes, every entry (start_pos, end_pos, byteStart,   *)
(* byteEnd) of string_byte_ranges points at its own element: the           *)
(* characters at [start_pos, end_pos) of the value text are the            *)
(* fixed-width rendering of the element decoded from bytes                 *)
(* [byteStart, byteEnd), on every row.                                     *)
C1_EntriesPointAtOwnElement ==
    IntegerMode =>
        \A k \in 1..Len(string_byte_ranges) :
            LET e == string_byte_ranges[k]
            IN  /\ e[2] <= Len(string_view)
                /\ TextAt(string_view, e[1], e[2])
                     = Rendering(e[3], e[4], NativeOrder(byteorder))

----------------------------------------------------------------------------
(* C4: the value view decodes multi-byte elements in the selected          *)
(* endianness (01 00 00 00 in Int32 mode reads 1 under Little Endian and   *)
(* 16777216 under Big Endian), also after an endianness change.            *)
C4_ValueViewFollowsEndianness ==
    (IntegerMode /\ Len(data) >= SizeOf(data_type)) =>
        TextAt(string_view, 0, data_type_width[data_type])
            = Rendering(0, SizeOf(data_type), SelectedOrder)

----------------------------------------------------------------------------
(* C5: for every highlight index i < len(data), in every render mode and   *)
(* after any mode changes and resets, the hex view highlights exactly the  *)
(* two hex digits of byte i, at hex_positions[i], and the value view       *)
(* highlights exactly the text field of the element whose bytes contain i  *)
(* (the character of byte i in ASCII mode).                                *)
C5_HighlightCoversByteAndElement ==
    (index < Len(data)) =>
        /\ hex_highlight
             = {hex_positions[index + 1], hex_positions[index + 1] + 1}
        /\ TextAt(hex_view, hex_positions[index + 1],
                  hex_positions[index + 1] + 2) = Hex02(data[index + 1])
        /\ InCompleteElement(index) =>
             str_highlight
               = FieldStart(index)
                   ..(FieldStart(index) + data_type_width[data_type] - 1)

----------------------------------------------------------------------------
(* Vocabulary of the selection properties.                                 *)

\* a selection handler has run and resolved the selection to lo..hi
Resolved(view) ==
    event.op = view /\ event.lo >= 0

\* byteToText of the value view: the entry whose byte range contains b
ByteToTextValue(b) ==
    FindRange(string_byte_ranges, b)

\* byteToText of the hex view: the two digits of byte b
ByteToTextHex(b) ==
    <<hex_positions[b + 1], hex_positions[b + 1] + 2>>

\* the bytes printed on the Hex line of the representations pane
HexLineBytes ==
    FromHex(CleanHex(representations_view[1].txt))

\* the pane shows representation lines (and not a message or nothing)
ShowsLines ==
    representations_view # <<>> /\ representations_view[1].label = "Hex"

\* the line of the pane with the given label, as a set of zero or one lines
LinesLabelled(label) ==
    {representations_view[k] : k \in
        {j \in 1..Len(representations_view) :
            representations_view[j].label = label}}

----------------------------------------------------------------------------
(* C2: when a hex-view selection resolves to the bytes lo..hi,             *)
(* onHexSelectionChanged selects in the value view the one range from the  *)
(* start of the element containing lo to the end of the element containing *)
(* hi, in every render mode, also when lo = hi and when hi is the first    *)
(* byte of its element or row.                                             *)
C2_HexSelectionMapsToElementRange ==
    (/\ Resolved("hex")
     /\ ByteToTextValue(event.lo) # <<>>
     /\ ByteToTextValue(event.hi) # <<>>) =>
        /\ SelStart(str_cursor) = ByteToTextValue(event.lo)[1][1]
        /\ SelEnd(str_cursor) = ByteToTextValue(event.hi)[1][2]

----------------------------------------------------------------------------
(* C3: for a selection in either view that resolves to the bytes lo..hi,   *)
(* the representations pane decodes exactly data[lo], ..., data[hi] in     *)
(* file order, also across a row boundary and for a partly selected glyph. *)
C3_InspectorDecodesSelectedSpan ==
    (Resolved("hex") \/ Resolved("str")) =>
        /\ ShowsLines
        /\ HexLineBytes = Bytes(event.lo, event.hi + 1)

----------------------------------------------------------------------------
----------------------------------------------------------------------------
(* C7: from an element-aligned byte span lo..hi selected in the hex view,  *)
(* syncing hex -> value and then reading the value-view selection back and *)
(* syncing value -> hex gives the span lo..hi and the hex text range       *)
(* [hex_positions[lo], hex_positions[hi] + 2) again.                       *)
C7_SyncRoundTrip ==
    (/\ Resolved("hex")
     /\ hex_cursor = <<hex_positions[event.lo + 1],
                       hex_positions[event.hi + 1] + 2>>
     /\ event.lo % SizeOf(data_type) = 0
     /\ (event.hi + 1) % SizeOf(data_type) = 0
     /\ InCompleteElement(event.hi)) =>
        LET back == getSelectedBytesString(string_byte_ranges, str_cursor)
        IN  /\ back = event.lo..event.hi
            /\ applySelectionToHexView(hex_positions, hex_view, hex_cursor,
                                       First(back), Last(back)) = hex_cursor

----------------------------------------------------------------------------
(* C8: textToBytes is the strict overlap test in both views: for the text  *)
(* range [posStart, posEnd) the selected bytes are those of the entries    *)
(* with textEnd > posStart and textStart < posEnd; an entry the range only *)
(* touches, also with an empty caret range, is not returned.               *)
StrictOverlapHex(c) ==
    {b \in 0..(Len(hex_positions) - 1) :
        /\ hex_positions[b + 1] + 2 > SelStart(c)
        /\ hex_positions[b + 1] < SelEnd(c)}

StrictOverlapValue(c) ==
    UNION { string_byte_ranges[k][3]..(string_byte_ranges[k][4] - 1) :
              k \in {j \in 1..Len(string_byte_ranges) :
                       /\ string_byte_ranges[j][2] > SelStart(c)
                       /\ string_byte_ranges[j][1] < SelEnd(c)} }

\* the handler resolved the selection to the first and last byte of S
ResolvedTo(S) ==
    IF S = {} THEN event.lo = -1
    ELSE event.lo = First(S) /\ event.hi = Last(S)

C8_StrictOverlap ==
    /\ event.op = "hex" => ResolvedTo(StrictOverlapHex(hex_cursor))
    /\ event.op = "str" => ResolvedTo(StrictOverlapValue(str_cursor))

----------------------------------------------------------------------------
(* C9: for n >= 1 selected bytes the pane holds, in this order, the Hex    *)
(* and ASCII lines, the two 8-bit lines, the two 16-bit lines iff n >= 2,  *)
(* the two 32-bit lines and the float line iff n >= 4, the double line iff *)
(* n >= 8; a selection of no bytes gives no representation lines.          *)
ExpectedLabels(n) ==
    <<"Hex", "ASCII", "Signed 8-bit Int", "Unsigned 8-bit Int">>
    \o (IF n >= 2 THEN <<"Signed 16-bit Int", "Unsigned 16-bit Int">> ELSE <<>>)
    \o (IF n >= 4
        THEN <<"Signed 32-bit Int", "Unsigned 32-bit Int", "Float (32-bit)">>
        ELSE <<>>)
    \o (IF n >= 8 THEN <<"Double (64-bit)">> ELSE <<>>)

C9_LinesByLength ==
    ShowsLines =>
        /\ Len(HexLineBytes) >= 1
        /\ [k \in 1..Len(representations_view) |-> representations_view[k].label]
             = ExpectedLabels(Len(HexLineBytes))

----------------------------------------------------------------------------
(* C10: the 16-bit and 32-bit integer lines are the two's-complement       *)
(* signed and the unsigned value of the first 2 and 4 bytes of the Hex     *)
(* line in the selected byte order; signed = unsigned below 2^(w-1) and    *)
(* unsigned - 2^w otherwise; the 8-bit lines do not depend on the byte     *)
(* order; an endianness change recomputes the pane from the bytes selected *)
(* in the hex view.                                                        *)

\* the unsigned value of the first n bytes of bs as <<high 16 bits, low 16
\* bits>>, first byte least significant under Little Endian
UnsignedOf(bs, n) ==
    LET B(k) == IF k <= n THEN bs[IF endian = "Little Endian" THEN k
                                  ELSE n + 1 - k]
                ELSE 0
    IN  <<B(3) + 256 * B(4), B(1) + 256 * B(2)>>

\* the signed value of the same bytes: u below 2^(w-1), u - 2^w otherwise
SignedOf(bs, n) ==
    LET u == UnsignedOf(bs, n)
        half == IF n = 1 THEN <<0, 128>>
                ELSE IF n = 2 THEN <<0, 32768>> ELSE <<32768, 0>>
        below == u[1] < half[1] \/ (u[1] = half[1] /\ u[2] < half[2])
    IN  IF below THEN u
        ELSE IF n = 4 THEN <<u[1] - 65536, u[2]>>
        ELSE <<-1, u[2] + 65536 - (IF n = 1 THEN 256 ELSE 65536)>>

----------------------------------------------------------------------------
(* Vocabulary of the hex layout properties.                                *)

\* the bytes b and b + 1 stand in the same row
SameRow(b) ==
    b \div 16 = (b + 1) \div 16

\* byte b is the 4th byte of its group
GroupEnd(b) ==
    ((b % 16) + 1) % 4 = 0

\* the glyph of every byte: its two uppercase hex digits at its recorded
\* position, and only blanks up to the glyph of the next byte of the row
GlyphsAtPositions ==
    \A b \in 0..(Len(data) - 1) :
        /\ hex_positions[b + 1] + 2 <= Len(hex_view)
        /\ TextAt(hex_view, hex_positions[b + 1], hex_positions[b + 1] + 2)
             = Hex02(data[b + 1])
        /\ (b + 1 < Len(data) /\ SameRow(b)) =>
             \A q \in (hex_positions[b + 1] + 2)..(hex_positions[b + 2] - 1) :
                 hex_view[q + 1] = " "

\* the glyphs of consecutive bytes of a row start 3 positions apart inside
\* a group and gap positions apart across two groups
GlyphSpacing(gap) ==
    \A b \in 0..(Len(data) - 2) :
        SameRow(b) =>
            hex_positions[b + 2] - hex_positions[b + 1]
                = IF GroupEnd(b) THEN gap ELSE 3

----------------------------------------------------------------------------
(* C11, as stated: every byte of a row is rendered as 2 uppercase hex      *)
(* digits and a separator blank, with one additional blank after every     *)
(* 4th byte but the last: glyphs start 3 positions apart inside a group    *)
(* and 4 positions apart across two groups, in the text and in             *)
(* hex_positions.                                                          *)
C11_OneExtraBlank ==
    GlyphsAtPositions /\ GlyphSpacing(4)

(* C11, amended: two additional blanks follow every 4th byte but the last, *)
(* so the first glyph of a group starts 5 positions after the start of     *)
(* the last glyph of the group before it; hex_positions records the same   *)
(* layout.                                                                 *)
C11_TwoExtraBlanks ==
    GlyphsAtPositions /\ GlyphSpacing(5)

\* a row with more than one group has been loaded
C11_Witness ==
    /\ Len(data) = 17
    /\ hex_positions[5] - hex_positions[4] = 5
    /\ hex_positions[4] - hex_positions[3] = 3
    /\ TextAt(hex_view, hex_positions[4], hex_positions[5])
         = Hex02(data[4]) \o <<" ", " ", " ">>

----------------------------------------------------------------------------
(* C12                                                                     *)

\* the column, counted from the start of the row's text, at which the
\* glyph of the byte at in-row position k starts when the prefix has the
\* given length
GlyphColumn(prefix_len, k) ==
    prefix_len + (k * 3) + ((k \div 4) * 2)

\* the text position at which the row of byte b starts
RowPosition(b) ==
    BlockPosition(hex_view, b \div BytesPerLine)

\* the number of missing byte slots of the last row
MissingSlots ==
    (BytesPerLine - (Len(data) % BytesPerLine)) % BytesPerLine

\* the glyphs of the buffer shown start at the same column in every row,
\* and the short final row ends in 3 blanks per missing byte slot
RowsAligned ==
    /\ \A b \in 0..(Len(data) - 1) :
          hex_positions[b + 1] - RowPosition(b) =
              GlyphColumn(Len(Address(0)), b % BytesPerLine)
    /\ Len(data) > 0 =>
          /\ Len(hex_view) >= 3 * MissingSlots
          /\ \A q \in (Len(hex_view) - (3 * MissingSlots) + 1)..Len(hex_view) :
                hex_view[q] = " "

\* C12: Column alignment of the hex view: the address prefix of every row
\* has the same length, at every row start including those of 100000 and
\* above, so that the glyph of the byte at in-row position k starts at the
\* same column in every row; a short final row is padded with 3 blanks
\* per missing byte slot.
C12_PrefixWidthFixed ==
    /\ Len(row_address) = Len(Address(0))
    /\ \A k \in 0..(BytesPerLine - 1) :
          GlyphColumn(Len(row_address), k) = GlyphColumn(Len(Address(0)), k)
    /\ RowsAligned

\* the same for the rows that start below 100000 (holds)
C12_PrefixWidthFixedBelow ==
    row_start < 100000 => C12_PrefixWidthFixed

----------------------------------------------------------------------------
(* C13                                                                     *)

\* rows of the views: one per 16 bytes
RowCount ==
    (Len(data) + BytesPerLine - 1) \div BytesPerLine

\* fields of a row: one per element
FieldsPerRow ==
    BytesPerLine \div SizeOf(data_type)

\* blanks between two fields of a row
Separator ==
    IF data_type = "ASCII" THEN 0 ELSE 1

\* text length of a row
RowLength ==
    FieldsPerRow * data_type_width[data_type]
        + (FieldsPerRow - 1) * Separator

\* what str() gives for the element that starts at byte b (the glyph in
\* ASCII mode), decoded in the host's byte order
ValueText(b) ==
    IF data_type = "ASCII" THEN <<Glyph(data[b + 1])>>
    ELSE Str(Unpack(NativeOrder(byteorder), FmtOf(data_type),
                    Bytes(b, b + SizeOf(data_type))))

\* the field at [s, s + w) shows txt, left-justified, blanks after it
ShowsLeftJustified(s, w, txt) ==
    /\ Len(txt) <= w
    /\ s + w <= Len(string_view)
    /\ TextAt(string_view, s, s + Len(txt)) = txt
    /\ \A q \in (s + Len(txt) + 1)..(s + w) : string_view[q] = " "

\* the field of the element slot that starts at byte b: the value of a
\* complete element, blanks for a missing or incomplete one
FieldShown(b) ==
    ShowsLeftJustified(FieldStart(b), data_type_width[data_type],
        IF b + SizeOf(data_type) <= Len(data) THEN ValueText(b) ELSE <<>>)

\* C13: Alignment of the value view: in every render mode every row,
\* including a short final row, has 16 / size fields of the mode's fixed
\* width (1, 4, 6, 11, 3, 5, 10) and the same text length; a complete
\* element shows its decimal value left-justified in its field, which no
\* value exceeds; the fields of an integer mode are one blank apart; only
\* groups of exactly size bytes are decoded, and the field of a missing
\* or incomplete element is blank.
C13_ValueRowsAligned ==
    /\ Len(string_view) =
          IF RowCount = 0 THEN 0 ELSE RowCount * (RowLength + 1) - 1
    /\ \A r \in 0..(RowCount - 1) :
          /\ r < RowCount - 1 =>
                string_view[r * (RowLength + 1) + RowLength + 1] = "\n"
          /\ \A k \in 0..(FieldsPerRow - 1) :
                /\ FieldShown(r * BytesPerLine + k * SizeOf(data_type))
                /\ (Separator = 1 /\ k < FieldsPerRow - 1) =>
                      string_view[FieldStart(r * BytesPerLine
                                             + k * SizeOf(data_type))
                                  + data_type_width[data_type] + 1] = " "
    /\ Len(string_byte_ranges) = Len(data) \div SizeOf(data_type)
    /\ \A n \in 1..Len(string_byte_ranges) :
          /\ string_byte_ranges[n][4] - string_byte_ranges[n][3]
                = SizeOf(data_type)
          /\ string_byte_ranges[n][4] <= Len(data)

\* the 32-bit view of the extreme buffer: the first field is filled by
\* the 11 characters of -2147483648, and the short row of 3 bytes is 4
\* blank fields
C13_Witness ==
    /\ data = ExtremeBuffer
    /\ byteorder = "little"
    /\ data_type = "32-bit int"
    /\ event.op = "mode"
    /\ TextAt(string_view, 0, 12) =
          <<"-", "2", "1", "4", "7", "4", "8", "3", "6", "4", "8", " ">>
    /\ Len(string_view) = 95
    /\ TextAt(string_view, 48, 95) = Spaces(47)
    /\ Len(string_byte_ranges) = 4

----------------------------------------------------------------------------
(* C14                                                                     *)

\* the texts and tables are those built from the buffer, the render mode
\* and the host's byte order alone
ViewsAsBuilt ==
    /\ hex_view = loadHexView(data).text
    /\ hex_positions = loadHexView(data).positions
    /\ string_view = StringView(data, data_type, byteorder).text
    /\ string_byte_ranges = StringView(data, data_type, byteorder).ranges

\* C14: If the initial highlight index is >= len(data) (index 1000, the
\* index len(data), or any index on an empty buffer), no text is
\* highlighted in either view and the hex text, the value text and both
\* offset tables are what they are with an in-range index: functions of
\* the buffer and the mode; this stays so after any sequence of mode
\* changes and resets.
C14_OutOfRangeIndexHighlightsNothing ==
    /\ original_index >= Len(data) =>
          /\ index = original_index
          /\ hex_highlight = {}
          /\ str_highlight = {}
    /\ ViewsAsBuilt

\* index 1000 on a 17-byte buffer, after a mode change to 16-bit int and
\* a reset: two rows of text, nothing highlighted
C14_Witness ==
    /\ Len(data) = 17
    /\ index = 1000
    /\ data_type = "16-bit int"
    /\ event.op = "reset"
    /\ hex_highlight = {}
    /\ str_highlight = {}
    /\ BlockCount(hex_view) = 2
    /\ BlockCount(string_view) = 2
    /\ Len(string_byte_ranges) = 8

----------------------------------------------------------------------------
(* C15                                                                     *)

\* no handler is running
Idle ==
    stack = <<>>

\* when a scroll event has been handled the latch is open, both views are
\* at the offset of the event, and one setValue call was made for it
ScrollSettled ==
    Idle =>
      /\ ~syncing_scroll
      /\ hex_scroll = str_scroll
      /\ scrolled.view # "none" =>
            /\ hex_scroll = scrolled.value
            /\ scrolled.mirrors = 1

\* the handler that the mirror step re-triggers is the other view's, it
\* finds the latch set, and nothing is called from it
SingleFlight ==
    /\ scrolled.mirrors <= 1
    /\ Len(stack) <= 2
    /\ Len(stack) = 2 =>
          /\ syncing_scroll
          /\ stack[1].pc = "leave"
          /\ stack[2].pc = "enter"
          /\ stack[2].fn # stack[1].fn
          /\ stack[2].value = scrolled.value

\* a step of the re-triggered handler changes no scroll bar and leaves
\* the latch alone
NestedChangesNothing ==
    Len(stack) = 2 => UNCHANGED scroll_vars

C15_Nested ==
    /\ Len(stack) = 2
    /\ stack[2].fn = "syncScrollBarsFromHex"
    /\ syncing_scroll

----------------------------------------------------------------------------
(* C16                                                                     *)

\* a selection handler is running
InSelectionHandler ==
    /\ stack # <<>>
    /\ Top.fn \in {"onHexSelectionChanged", "onStringSelectionChanged"}

\* the latch is set exactly while one handler is between its test and
\* its return
LatchScopedToPass ==
    /\ Idle => ~syncing_selection
    /\ syncing_selection <=>
          (InSelectionHandler /\ Top.pc \in {"sync", "leave"})

\* setting or clearing the other view's selection calls no handler: a
\* handler runs only for a mouse release, one at a time, and the pass made
\* is the pass of that handler
NoSecondPass ==
    /\ Len(stack) <= 1
    /\ (InSelectionHandler /\ Top.pc = "leave") =>
          event.op = (IF Top.fn = "onHexSelectionChanged" THEN "hex"
                      ELSE "str")

\* a handler entered while the latch is set changes nothing
GuardedEntryChangesNothing ==
    (InSelectionHandler /\ Top.pc = "enter" /\ syncing_selection)
        => UNCHANGED window_vars

\* C16: Selection synchronization is re-entrancy safe: a selection
\* handler entered while syncing_selection is set changes nothing;
\* applying or clearing the destination-side selection during a pass
\* starts no second pass in the other direction; and syncing_selection is
\* false whenever no handler runs, on the path of a mapped selection and
\* on the path of an empty one, after any sequence of selection,
\* mode-change and endianness-change events.
C16_ReentrancySafe ==
    /\ [](LatchScopedToPass /\ NoSecondPass)
    /\ [][GuardedEntryChangesNothing]_vars

\* a hex selection that mapped to bytes has been handled in an integer
\* mode: the string view's selection is applied, no handler runs, the
\* latch is clear
C16_Witness ==
    /\ Idle
    /\ ~syncing_selection
    /\ event.op = "hex"
    /\ event.lo >= 0
    /\ data_type # "ASCII"
    /\ SelStart(str_cursor) < SelEnd(str_cursor)
    /\ representations_view # <<>>

\* an empty string selection has been handled: the hex selection is
\* cleared, the pane empty, the latch clear
C16_EmptyPath ==
    /\ Idle
    /\ ~syncing_selection
    /\ event = Event("str", -1, -1)
    /\ representations_view = <<>>
    /\ SelStart(hex_cursor) = SelEnd(hex_cursor)

\* the pass of a mapped hex selection before its last statement: the
\* string view's selection is applied, the latch still set
C16_InPass ==
    /\ Len(stack) = 1
    /\ Top.fn = "onHexSelectionChanged"
    /\ Top.pc = "leave"
    /\ syncing_selection
    /\ event.op = "hex"
    /\ event.lo >= 0
    /\ SelStart(str_cursor) < SelEnd(str_cursor)

====
